---- MODULE Spec2Model ----
(***************************************************************************)
(* StewardWell: family chores, shared point balance and reward catalog.    *)
(*                                                                         *)
(* The model follows the logic layer (src/src/logic) and the model layer   *)
(* (src/src/models).  The database is the committed state; the SQLAlchemy  *)
(* session is modelled where a handler changes an attribute without        *)
(* committing it (submit_chore, reject_chore).                             *)
(***************************************************************************)
EXTENDS Integers, Sequences, FiniteSets, TLC

\* ------------------------------------------------------------------ bounds
MaxChores == 1
MaxPoints == 1
MaxAmount == 2
MaxBalance == 3
MaxCost == 2
MaxQty == 3
MaxItems == 1
MaxRequests == 2

\* -------------------------------------------------------------- population
None == "None"
NoChore == [family_id |-> None]
NoItem == [family_id |-> None]

Families == {"f1", "f2"}
Users == {"u1", "u2", "u3", "u4"}
Children == {"c1", "c2", "c3"}
ChoreIds == 1..MaxChores
\* Chore.status is a free String(20) column: these are the values the logic compares
\* with, and one other value.
Statuses == {"pending", "submitted", "completed", "archived"}

\* Chore names as character sequences, so that strip() and len() are computed.
Names == { <<>>, <<" ", "a", " ">>, <<"D", "i", "s", "h">> }
ItemIds == 1..MaxItems

VARIABLES
    user_family,    \* User.family_id, None when the user has no family
    child_family,   \* Child.family_id, for the children that exist
    child_name,     \* Child.name
    user_account,   \* User.username and User.email
    chores,         \* committed Chore rows, NoChore where the id is unused
    session,        \* Chore.status set on the session object but not committed
    family_points,  \* Family.family_points
    total_points,   \* FamilyPoints.total_points, for the families that have a row
    transactions,   \* PointsTransaction rows, oldest first
    conv_items,     \* ConversionItem rows
    store_items,    \* StoreItem rows
    individual_rewards,  \* IndividualReward rows
    family_rewards,      \* FamilyReward rows
    family_code,    \* Family.family_code, for the families that exist
    family_creator, \* Family.creator_id
    join_requests,  \* JoinRequest rows, the id is the position
    gen,            \* where a running Family.create_family call stands
    debits,         \* the Family.subtract_points calls of two requests served at once
    last            \* what the last call was and what it returned

vars == << user_family, user_account, child_family, child_name, chores, session, family_points,
           total_points, transactions, conv_items, store_items,
           individual_rewards, family_rewards, family_code, family_creator,
           join_requests, gen, debits, last >>

membership == << family_code, family_creator, join_requests, gen, debits >>
people == << user_family, user_account, child_family, child_name, membership >>
ledger == << family_points, total_points, transactions >>
rewards == << individual_rewards, family_rewards >>
catalog == << conv_items, store_items, rewards >>

\* ------------------------------------------------------------ return values
\* (success, value, error) of a call, with the arguments it was called with:
\* id is the chore, item or family, arg a child id / status / key, val a number.
Ret(op, ok, err, id, user, arg, val) ==
    [op |-> op, ok |-> ok, err |-> err, id |-> id, user |-> user, arg |-> arg, val |-> val]

\* ------------------------------------------------------------------ helpers
Max0(n) == IF n > 0 THEN n ELSE 0

Abs(n) == IF n < 0 THEN 0 - n ELSE n

RECURSIVE LStrip(_)
LStrip(s) == IF s # <<>> /\ Head(s) = " " THEN LStrip(Tail(s)) ELSE s

RECURSIVE RStrip(_)
RStrip(s) == IF s # <<>> /\ s[Len(s)] = " " THEN RStrip(SubSeq(s, 1, Len(s) - 1)) ELSE s

Strip(s) == RStrip(LStrip(s))

NameTooShort(name) == name = <<>> \/ Len(Strip(name)) < 2

UserExists(u) == u \in DOMAIN user_family

ChildExists(c) == c \in DOMAIN child_family

ChoreExists(c) == c \in ChoreIds /\ chores[c] # NoChore

\* The status the session shows for a chore: the uncommitted one if there is one.
StatusOf(c) == IF session[c] # None THEN session[c] ELSE chores[c].status

\* db.session.commit(): every uncommitted status of the session reaches the database.
Flushed ==
    [c \in ChoreIds |->
        IF chores[c] # NoChore /\ session[c] # None
        THEN [chores[c] EXCEPT !.status = session[c]]
        ELSE chores[c]]

Clean == [c \in ChoreIds |-> None]

\* db.session.commit() when done is true, nothing otherwise.
CommitIf(done) ==
    IF done THEN chores' = Flushed /\ session' = Clean ELSE UNCHANGED << chores, session >>

\* chore.status = value, without a commit.
SetStatus(c, value) ==
    [session EXCEPT ![c] = IF value = chores[c].status THEN None ELSE value]

\* ------------------------------------------------------------------- chores
ChoreRow(family_id, point_amount, assigned_child_id) ==
    [family_id |-> family_id, status |-> "pending", point_amount |-> point_amount,
     assigned_child_id |-> assigned_child_id, assigned_user_id |-> None]

\* The primary key of the next row (SQLite: one more than the largest in use).
NextChoreId ==
    IF \A c \in ChoreIds : chores[c] = NoChore THEN 1
    ELSE 1 + CHOOSE c \in ChoreIds : chores[c] # NoChore /\ \A d \in ChoreIds : chores[d] # NoChore => d <= c

\* create_chore without its check that the user has a family.
create_chore_error_NoFamilyCheck(name, user_id, assigned_child_id) ==
    IF NameTooShort(name) THEN "Chore name must be at least 2 characters long"
    ELSE IF ~UserExists(user_id) THEN "User not found"
    ELSE IF assigned_child_id # None
            /\ (~ChildExists(assigned_child_id)
                \/ child_family[assigned_child_id] # user_family[user_id])
         THEN "Assigned child must be from your family"
    ELSE None

\* ChoreLogic.create_chore: the early returns, None when there is none.
create_chore_error(name, user_id, assigned_child_id) ==
    IF NameTooShort(name) THEN "Chore name must be at least 2 characters long"
    ELSE IF ~UserExists(user_id) THEN "User not found"
    ELSE IF user_family[user_id] = None THEN "You must be part of a family to create chores"
    ELSE IF assigned_child_id # None
            /\ (~ChildExists(assigned_child_id)
                \/ child_family[assigned_child_id] # user_family[user_id])
         THEN "Assigned child must be from your family"
    ELSE None

create_chore(name, user_id, point_amount, assigned_child_id) ==
    LET err == create_chore_error(name, user_id, assigned_child_id)
        id == NextChoreId
    IN  /\ err = None => id \in ChoreIds
        /\ IF err = None
           THEN /\ chores' = [Flushed EXCEPT ![id] =
                        ChoreRow(user_family[user_id], Max0(point_amount), assigned_child_id)]
                /\ session' = Clean
                /\ last' = Ret("create_chore", TRUE, None, id, user_id, None, Max0(point_amount))
           ELSE /\ UNCHANGED << chores, session >>
                /\ last' = Ret("create_chore", FALSE, err, 0, user_id, None, 0)
        /\ UNCHANGED << people, ledger, catalog >>

\* ChoreLogic.update_chore: the early returns for one keyword argument.
update_chore_error(chore_id, user_id, key, value) ==
    IF ~ChoreExists(chore_id) THEN "Chore not found"
    ELSE IF ~UserExists(user_id) THEN "User not found"
    ELSE IF user_family[user_id] # chores[chore_id].family_id
         THEN "You can only update chores from your own family"
    ELSE IF key = "name" /\ NameTooShort(value)
         THEN "Chore name must be at least 2 characters long"
    ELSE IF key = "assigned_child_id" /\ value # None
            /\ (~ChildExists(value) \/ child_family[value] # user_family[user_id])
         THEN "Assigned child must be from your family"
    ELSE None

\* Chore.update_chore: setattr for every keyword the row has, then commit.
Chore_update_chore(rows, chore_id, key, value) ==
    IF key = "point_amount" THEN [rows EXCEPT ![chore_id].point_amount = Max0(value)]
    ELSE IF key = "assigned_child_id" THEN [rows EXCEPT ![chore_id].assigned_child_id = value]
    ELSE IF key = "assigned_user_id" THEN [rows EXCEPT ![chore_id].assigned_user_id = value]
    ELSE IF key = "status" THEN [rows EXCEPT ![chore_id].status = value]
    ELSE IF key = "family_id" THEN [rows EXCEPT ![chore_id].family_id = value]
    ELSE rows

update_chore(chore_id, user_id, key, value) ==
    LET err == update_chore_error(chore_id, user_id, key, value)
        num == key = "point_amount"
    IN  /\ IF err = None
           THEN /\ chores' = Chore_update_chore(Flushed, chore_id, key, value)
                /\ session' = Clean
                /\ last' = Ret("update_chore", TRUE, None, chore_id, user_id,
                               IF num \/ key = "name" THEN key ELSE value,
                               IF num THEN Max0(value) ELSE 0)
           ELSE /\ UNCHANGED << chores, session >>
                /\ last' = Ret("update_chore", FALSE, err, chore_id, user_id, key, 0)
        /\ UNCHANGED << people, ledger, catalog >>

\* ChoreLogic.delete_chore
delete_chore_error(chore_id, user_id) ==
    IF ~ChoreExists(chore_id) THEN "Chore not found"
    ELSE IF ~UserExists(user_id) THEN "User not found"
    ELSE IF user_family[user_id] # chores[chore_id].family_id
         THEN "You can only delete chores from your own family"
    ELSE None

delete_chore(chore_id, user_id) ==
    LET err == delete_chore_error(chore_id, user_id)
    IN  /\ IF err = None
           THEN /\ chores' = [Flushed EXCEPT ![chore_id] = NoChore]
                /\ session' = Clean
                /\ last' = Ret("delete_chore", TRUE, None, chore_id, user_id, None, 0)
           ELSE /\ UNCHANGED << chores, session >>
                /\ last' = Ret("delete_chore", FALSE, err, chore_id, user_id, None, 0)
        /\ UNCHANGED << people, ledger, catalog >>

\* ChoreLogic.assign_chore
assign_chore_error(chore_id, child_id, user_id) ==
    IF ~ChoreExists(chore_id) THEN "Chore not found"
    ELSE IF ~ChildExists(child_id) THEN "Child not found"
    ELSE IF ~UserExists(user_id) THEN "User not found"
    ELSE IF user_family[user_id] # chores[chore_id].family_id
            \/ user_family[user_id] # child_family[child_id]
         THEN "You can only assign chores within your own family"
    ELSE None

\* Chore.assign_to_child
Chore_assign_to_child(rows, chore_id, child_id) ==
    [rows EXCEPT ![chore_id].assigned_child_id = child_id, ![chore_id].assigned_user_id = None]

assign_chore(chore_id, child_id, user_id) ==
    LET err == assign_chore_error(chore_id, child_id, user_id)
    IN  /\ IF err = None
           THEN /\ chores' = Chore_assign_to_child(Flushed, chore_id, child_id)
                /\ session' = Clean
                /\ last' = Ret("assign_chore", TRUE, None, chore_id, user_id, child_id, 0)
           ELSE /\ UNCHANGED << chores, session >>
                /\ last' = Ret("assign_chore", FALSE, err, chore_id, user_id, child_id, 0)
        /\ UNCHANGED << people, ledger, catalog >>

\* complete_chore without its check of the status.
complete_chore_error_NoStatusCheck(chore_id, user_id) ==
    IF ~ChoreExists(chore_id) THEN "Chore not found"
    ELSE IF ~UserExists(user_id) THEN "User not found"
    ELSE IF user_family[user_id] # chores[chore_id].family_id
         THEN "You can only complete chores from your own family"
    ELSE None

\* complete_chore without its check of the family.
complete_chore_error_NoFamilyCheck(chore_id, user_id) ==
    IF ~ChoreExists(chore_id) THEN "Chore not found"
    ELSE IF ~UserExists(user_id) THEN "User not found"
    ELSE IF StatusOf(chore_id) = "completed" THEN "Chore is already completed"
    ELSE None

\* ChoreLogic.complete_chore: the early returns.
complete_chore_error(chore_id, user_id) ==
    IF ~ChoreExists(chore_id) THEN "Chore not found"
    ELSE IF ~UserExists(user_id) THEN "User not found"
    ELSE IF user_family[user_id] # chores[chore_id].family_id
         THEN "You can only complete chores from your own family"
    ELSE IF StatusOf(chore_id) = "completed" THEN "Chore is already completed"
    ELSE None

\* Chore.complete: status = 'completed', then commit.  Nothing else is written.
Chore_complete(rows, chore_id) == [rows EXCEPT ![chore_id].status = "completed"]

complete_chore(chore_id, user_id) ==
    LET err == complete_chore_error(chore_id, user_id)
    IN  /\ IF err = None
           THEN /\ chores' = Chore_complete(Flushed, chore_id)
                /\ session' = Clean
                /\ last' = Ret("complete_chore", TRUE, None, chore_id, user_id, None, 0)
           ELSE /\ UNCHANGED << chores, session >>
                /\ last' = Ret("complete_chore", FALSE, err, chore_id, user_id, None, 0)
        /\ UNCHANGED << people, ledger, catalog >>

\* ChoreLogic.approve_chore: the early returns.
approve_chore_error(chore_id, user_id) ==
    IF ~ChoreExists(chore_id) THEN "Chore not found"
    ELSE IF ~UserExists(user_id) THEN "User not found"
    ELSE IF user_family[user_id] # chores[chore_id].family_id THEN "Unauthorized for this family"
    ELSE IF StatusOf(chore_id) \notin {"submitted", "pending"} THEN "Chore is not awaiting approval"
    ELSE None

approve_chore(chore_id, user_id) ==
    LET err == approve_chore_error(chore_id, user_id)
    IN  /\ IF err = None
           THEN /\ chores' = Chore_complete(Flushed, chore_id)
                /\ session' = Clean
                /\ last' = Ret("approve_chore", TRUE, None, chore_id, user_id, None, 0)
           ELSE /\ UNCHANGED << chores, session >>
                /\ last' = Ret("approve_chore", FALSE, err, chore_id, user_id, None, 0)
        /\ UNCHANGED << people, ledger, catalog >>

\* f"{prefix}: {str(e)}" for the AttributeError of chore.save()
NoSave(prefix) == prefix \o ": 'Chore' object has no attribute 'save'"

\* ChoreLogic.submit_chore: the early returns.
submit_chore_error(chore_id, child_id, user_id) ==
    IF ~ChoreExists(chore_id) THEN "Chore not found"
    ELSE IF ~UserExists(user_id) \/ user_family[user_id] = None THEN "User not found"
    ELSE IF ~ChildExists(child_id) THEN "Child not found"
    ELSE IF user_family[user_id] # chores[chore_id].family_id
            \/ child_family[child_id] # chores[chore_id].family_id
         THEN "Unauthorized for this family"
    ELSE IF chores[chore_id].assigned_child_id # child_id
         THEN "This chore isn't assigned to this child"
    ELSE IF StatusOf(chore_id) = "completed" THEN "Chore is already completed"
    ELSE None

\* ChoreLogic.submit_chore: past the checks it sets chore.status and calls chore.save().
\* Chore defines no save() and db.Model has none: the call raises AttributeError, the
\* except clause returns a failure, and the status stays on the session uncommitted.
submit_chore(chore_id, child_id, user_id) ==
    LET err == submit_chore_error(chore_id, child_id, user_id)
    IN  /\ IF err # None
           THEN /\ UNCHANGED << chores, session >>
                /\ last' = Ret("submit_chore", FALSE, err, chore_id, user_id, child_id, 0)
           ELSE /\ session' = SetStatus(chore_id, "submitted")
                /\ UNCHANGED chores
                /\ last' = Ret("submit_chore", FALSE, NoSave("Failed to submit chore"),
                               chore_id, user_id, child_id, 0)
        /\ UNCHANGED << people, ledger, catalog >>

\* ChoreLogic.reject_chore: the early returns.
reject_chore_error(chore_id, user_id) ==
    IF ~ChoreExists(chore_id) THEN "Chore not found"
    ELSE IF ~UserExists(user_id) THEN "User not found"
    ELSE IF user_family[user_id] # chores[chore_id].family_id THEN "Unauthorized for this family"
    ELSE IF StatusOf(chore_id) # "submitted" THEN "Only submitted chores can be rejected"
    ELSE None

\* ChoreLogic.reject_chore: past the checks it sets chore.status and calls chore.save(),
\* which raises as in submit_chore.
reject_chore(chore_id, user_id) ==
    LET err == reject_chore_error(chore_id, user_id)
    IN  /\ IF err # None
           THEN /\ UNCHANGED << chores, session >>
                /\ last' = Ret("reject_chore", FALSE, err, chore_id, user_id, None, 0)
           ELSE /\ session' = SetStatus(chore_id, "pending")
                /\ UNCHANGED chores
                /\ last' = Ret("reject_chore", FALSE, NoSave("Failed to reject chore"),
                               chore_id, user_id, None, 0)
        /\ UNCHANGED << people, ledger, catalog >>

\* The end of a request: Flask-SQLAlchemy removes the scoped session, and what the
\* session held uncommitted is rolled back.
teardown ==
    /\ session # Clean
    /\ session' = Clean
    /\ last' = Ret("teardown", TRUE, None, 0, None, None, 0)
    /\ UNCHANGED << chores, people, ledger, catalog >>

\* ------------------------------------------------- family points (Family row)
FamilyExists(f) == f \in DOMAIN family_code

\* Family.add_points: adds when points > 0, otherwise does nothing.
Family_add_points(balance, points) == IF points > 0 THEN balance + points ELSE balance

\* Family.subtract_points: True and the new balance, or False and the old one.
Family_subtract_points(balance, points) ==
    IF points > 0 /\ balance >= points
    THEN [ok |-> TRUE, balance |-> balance - points]
    ELSE [ok |-> FALSE, balance |-> balance]

\* Family.set_points: overwrites when points >= 0, otherwise does nothing.
Family_set_points(balance, points) == IF points >= 0 THEN points ELSE balance

\* The model methods called directly on the Family row.
add_points(f, points) ==
    /\ Family_add_points(family_points[f], points) <= MaxBalance
    /\ family_points' = [family_points EXCEPT ![f] = Family_add_points(@, points)]
    /\ last' = Ret("Family.add_points", TRUE, None, 0, None, f, points)
    /\ CommitIf(points > 0)
    /\ UNCHANGED << people, total_points, transactions, catalog >>

subtract_points(f, points) ==
    LET r == Family_subtract_points(family_points[f], points)
    IN  /\ family_points' = [family_points EXCEPT ![f] = r.balance]
        /\ last' = Ret("Family.subtract_points", r.ok, None, 0, None, f, points)
        /\ CommitIf(r.ok)
        /\ UNCHANGED << people, total_points, transactions, catalog >>

set_points(f, points) ==
    /\ points <= MaxBalance
    /\ family_points' = [family_points EXCEPT ![f] = Family_set_points(@, points)]
    /\ last' = Ret("Family.set_points", TRUE, None, 0, None, f, points)
    /\ CommitIf(points >= 0)
    /\ UNCHANGED << people, total_points, transactions, catalog >>

\* FamilyPointsLogic.adjust_family_points: the early returns.
adjust_family_points_error(family_id, user_id) ==
    IF ~UserExists(user_id) THEN "User not found"
    ELSE IF user_family[user_id] # family_id THEN "You can only adjust points for your own family"
    ELSE IF ~FamilyExists(family_id) THEN "Family not found"
    ELSE None

adjust_family_points(family_id, points_adjustment, user_id) ==
    LET err == adjust_family_points_error(family_id, user_id)
        op == "adjust_family_points"
        balance == family_points[family_id]
        sub == Family_subtract_points(balance, Abs(points_adjustment))
    IN  /\ IF err # None
           THEN /\ UNCHANGED family_points
                /\ last' = Ret(op, FALSE, err, 0, user_id, family_id, points_adjustment)
           ELSE IF points_adjustment > 0
           THEN /\ Family_add_points(balance, points_adjustment) <= MaxBalance
                /\ family_points' =
                        [family_points EXCEPT ![family_id] = Family_add_points(@, points_adjustment)]
                /\ last' = Ret(op, TRUE, None, 0, user_id, family_id, family_points'[family_id])
           ELSE IF points_adjustment < 0 /\ ~sub.ok
           THEN /\ UNCHANGED family_points
                /\ last' = Ret(op, FALSE, "Insufficient family points for this adjustment",
                               0, user_id, family_id, points_adjustment)
           ELSE /\ family_points' = [family_points EXCEPT ![family_id] =
                        IF points_adjustment < 0 THEN sub.balance ELSE @]
                /\ last' = Ret(op, TRUE, None, 0, user_id, family_id, family_points'[family_id])
        /\ CommitIf(family_points' # family_points)
        /\ UNCHANGED << people, total_points, transactions, catalog >>

\* FamilyPointsLogic.set_family_points: the early returns.
set_family_points_error(family_id, new_total, user_id) ==
    IF new_total < 0 THEN "Family points cannot be negative"
    ELSE IF ~UserExists(user_id) THEN "User not found"
    ELSE IF user_family[user_id] # family_id THEN "You can only set points for your own family"
    ELSE IF ~FamilyExists(family_id) THEN "Family not found"
    ELSE None

set_family_points(family_id, new_total, user_id) ==
    LET err == set_family_points_error(family_id, new_total, user_id)
        op == "set_family_points"
    IN  /\ new_total <= MaxBalance
        /\ IF err # None
           THEN /\ UNCHANGED family_points
                /\ last' = Ret(op, FALSE, err, 0, user_id, family_id, new_total)
           ELSE /\ family_points' =
                        [family_points EXCEPT ![family_id] = Family_set_points(@, new_total)]
                /\ last' = Ret(op, TRUE, None, 0, user_id, family_id, family_points'[family_id])
        /\ CommitIf(family_points' # family_points)
        /\ UNCHANGED << people, total_points, transactions, catalog >>

\* --------------------------------------------- family points (FamilyPoints row)
HasRow(f) == f \in DOMAIN total_points

WithRow(f, total) == [g \in DOMAIN total_points \cup {f} |-> IF g = f THEN total ELSE total_points[g]]

\* get_by_family creating a fresh row whether or not the family has one.
get_by_family_AlwaysCreate(f) ==
    /\ total_points' = WithRow(f, 0)
    /\ last' = Ret("FamilyPoints.get_by_family", TRUE, None, 0, None, f, total_points'[f])
    /\ CommitIf(TRUE)
    /\ UNCHANGED << people, family_points, transactions, catalog >>

\* FamilyPoints.get_by_family: the family's row, created with total 0 if there is none.
get_by_family(f) ==
    /\ total_points' = IF HasRow(f) THEN total_points ELSE WithRow(f, 0)
    /\ last' = Ret("FamilyPoints.get_by_family", TRUE, None, 0, None, f, total_points'[f])
    /\ CommitIf(~HasRow(f))
    /\ UNCHANGED << people, family_points, transactions, catalog >>

\* FamilyPoints.add_points: no check of the amount.
FamilyPoints_add_points(total, amount) == total + amount

\* FamilyPoints.subtract_points: the new total, or None (here ok = FALSE).
FamilyPoints_subtract_points(total, amount) ==
    IF total >= amount
    THEN [ok |-> TRUE, total |-> total - amount]
    ELSE [ok |-> FALSE, total |-> total]

\* FamilyPoints.set_points: no check of the amount.
FamilyPoints_set_points(total, amount) == amount

InRange(n) == (0 - MaxBalance) <= n /\ n <= MaxBalance

\* The model methods called on the family's FamilyPoints row.
fp_add_points(f, amount) ==
    /\ HasRow(f)
    /\ InRange(FamilyPoints_add_points(total_points[f], amount))
    /\ total_points' = [total_points EXCEPT ![f] = FamilyPoints_add_points(@, amount)]
    /\ last' = Ret("FamilyPoints.add_points", TRUE, None, 0, None, f, total_points'[f])
    /\ CommitIf(TRUE)
    /\ UNCHANGED << people, family_points, transactions, catalog >>

fp_subtract_points(f, amount) ==
    LET r == FamilyPoints_subtract_points(total_points[f], amount)
    IN  /\ HasRow(f)
        /\ InRange(r.total)
        /\ total_points' = [total_points EXCEPT ![f] = r.total]
        /\ last' = Ret("FamilyPoints.subtract_points", r.ok, None, 0, None, f, amount)
        /\ CommitIf(r.ok)
        /\ UNCHANGED << people, family_points, transactions, catalog >>

fp_set_points(f, amount) ==
    /\ HasRow(f)
    /\ InRange(amount)
    /\ total_points' = [total_points EXCEPT ![f] = FamilyPoints_set_points(@, amount)]
    /\ last' = Ret("FamilyPoints.set_points", TRUE, None, 0, None, f, total_points'[f])
    /\ CommitIf(TRUE)
    /\ UNCHANGED << people, family_points, transactions, catalog >>

\* The sum of the amounts of a family's PointsTransaction rows.  No handler calls
\* PointsTransaction.create_transaction, so the table stays as it starts.
RECURSIVE SumAmounts(_, _)
SumAmounts(rows, f) ==
    IF rows = <<>> THEN 0
    ELSE (IF Head(rows).family_id = f THEN Head(rows).amount ELSE 0) + SumAmounts(Tail(rows), f)

\* --------------------------------------------------------- conversion items
ConvExists(i) == i \in ItemIds /\ conv_items[i] # NoItem

NextConvId ==
    IF \A i \in ItemIds : conv_items[i] = NoItem THEN 1
    ELSE 1 + CHOOSE i \in ItemIds : conv_items[i] # NoItem /\ \A j \in ItemIds : conv_items[j] # NoItem => j <= i

\* StoreLogic.create_conversion_item: the early returns.
create_conversion_item_error(name, coin_cost, points_value, user_id) ==
    IF NameTooShort(name) THEN "Conversion item name must be at least 2 characters long"
    ELSE IF coin_cost < 1 THEN "Coin cost must be a positive number"
    ELSE IF points_value < 1 THEN "Points value must be a positive number"
    ELSE IF ~UserExists(user_id) THEN "User not found"
    ELSE IF user_family[user_id] = None
         THEN "You must be part of a family to create conversion items"
    ELSE None

create_conversion_item(name, coin_cost, points_value, user_id) ==
    LET err == create_conversion_item_error(name, coin_cost, points_value, user_id)
        id == NextConvId
        op == "create_conversion_item"
    IN  /\ err = None => id \in ItemIds
        /\ IF err = None
           THEN /\ conv_items' = [conv_items EXCEPT ![id] =
                        [family_id |-> user_family[user_id], coin_cost |-> coin_cost,
                         points_value |-> points_value, is_available |-> TRUE]]
                /\ last' = Ret(op, TRUE, None, id, user_id, None, points_value)
           ELSE /\ UNCHANGED conv_items
                /\ last' = Ret(op, FALSE, err, 0, user_id, None, 0)
        /\ CommitIf(err = None)
        /\ UNCHANGED << people, ledger, store_items, rewards >>

\* store_controller.edit_conversion_item (POST): the flashed errors.
edit_conversion_item_error(item_id, user_id, coin_cost, points_value) ==
    IF user_family[user_id] = None THEN "You must be part of a family to edit conversion items."
    ELSE IF ~ConvExists(item_id) \/ conv_items[item_id].family_id # user_family[user_id]
         THEN "Conversion item not found or access denied."
    ELSE IF coin_cost < 1 THEN "Coin cost must be a positive number."
    ELSE IF points_value < 1 THEN "Points value must be a positive number."
    ELSE None

edit_conversion_item(item_id, user_id, coin_cost, points_value, is_available) ==
    LET err == edit_conversion_item_error(item_id, user_id, coin_cost, points_value)
        op == "edit_conversion_item"
    IN  /\ IF err = None
           THEN /\ conv_items' = [conv_items EXCEPT ![item_id] =
                        [@ EXCEPT !.coin_cost = coin_cost, !.points_value = points_value,
                                  !.is_available = is_available]]
                /\ last' = Ret(op, TRUE, None, item_id, user_id, None, points_value)
           ELSE /\ UNCHANGED conv_items
                /\ last' = Ret(op, FALSE, err, item_id, user_id, None, 0)
        /\ CommitIf(err = None)
        /\ UNCHANGED << people, ledger, store_items, rewards >>

\* StoreLogic.purchase_conversion_item: the early returns.
purchase_conversion_item_error(item_id, user_id) ==
    IF ~ConvExists(item_id) THEN "Conversion item not found"
    ELSE IF ~UserExists(user_id) THEN "User not found"
    ELSE IF user_family[user_id] # conv_items[item_id].family_id
         THEN "You can only purchase items from your own family store"
    ELSE IF ~conv_items[item_id].is_available THEN "This conversion item is not available"
    ELSE IF ~FamilyExists(user_family[user_id]) THEN "Family not found"
    ELSE None

\* A conversion that adds the coins paid instead of the points bought.
conversion_points_CoinCost(item) == item.coin_cost

\* What a conversion adds to the family pool: the item's points_value.
conversion_points(item) == item.points_value

purchase_conversion_item(item_id, user_id) ==
    LET err == purchase_conversion_item_error(item_id, user_id)
        op == "purchase_conversion_item"
        f == user_family[user_id]
        points == conversion_points(conv_items[item_id])
    IN  /\ IF err = None
           THEN /\ Family_add_points(family_points[f], points) <= MaxBalance
                /\ family_points' = [family_points EXCEPT ![f] = Family_add_points(@, points)]
                /\ last' = Ret(op, TRUE, None, item_id, user_id, f, points)
                /\ CommitIf(points > 0)
           ELSE /\ UNCHANGED << family_points, chores, session >>
                /\ last' = Ret(op, FALSE, err, item_id, user_id, None, 0)
        /\ UNCHANGED << people, total_points, transactions, catalog >>

\* --------------------------------------------------------------- store items
StoreExists(i) == i \in ItemIds /\ store_items[i] # NoItem

NextStoreId ==
    IF \A i \in ItemIds : store_items[i] = NoItem THEN 1
    ELSE 1 + CHOOSE i \in ItemIds : store_items[i] # NoItem /\ \A j \in ItemIds : store_items[j] # NoItem => j <= i

\* A quantity column: infinite stands for NULL, and then quantity is not read.
Finite(n) == [infinite |-> FALSE, quantity |-> n]
Infinite == [infinite |-> TRUE, quantity |-> 0]

\* StoreItem.create_item: no validation.
create_item(family_id, qty) ==
    LET id == NextStoreId
    IN  /\ id \in ItemIds
        /\ store_items' = [store_items EXCEPT ![id] =
                [family_id |-> family_id, infinite |-> qty.infinite, quantity |-> qty.quantity,
                 is_active |-> TRUE]]
        /\ last' = Ret("StoreItem.create_item", TRUE, None, id, None, family_id, qty.quantity)
        /\ CommitIf(TRUE)
        /\ UNCHANGED << people, ledger, conv_items, rewards >>

\* StoreItem.is_available
StoreItem_is_available(item) == item.is_active /\ (item.infinite \/ item.quantity > 0)

is_available(i) ==
    /\ StoreExists(i)
    /\ last' = Ret("StoreItem.is_available", StoreItem_is_available(store_items[i]), None,
                   i, None, None, 0)
    /\ UNCHANGED << people, chores, session, ledger, catalog >>

\* purchase with the comparison off by one: a quantity of 0 is still sold.
StoreItem_purchase_OffByOne(item) ==
    IF ~item.infinite
    THEN IF item.quantity < 0
         THEN [ok |-> FALSE, item |-> item]
         ELSE [ok |-> TRUE, item |-> [item EXCEPT !.quantity = @ - 1]]
    ELSE [ok |-> TRUE, item |-> item]

\* StoreItem.purchase: False when a finite quantity is used up, else one unit less.
StoreItem_purchase(item) ==
    IF ~item.infinite
    THEN IF item.quantity <= 0
         THEN [ok |-> FALSE, item |-> item]
         ELSE [ok |-> TRUE, item |-> [item EXCEPT !.quantity = @ - 1]]
    ELSE [ok |-> TRUE, item |-> item]

purchase(i) ==
    LET r == StoreItem_purchase(store_items[i])
    IN  /\ StoreExists(i)
        /\ store_items' = [store_items EXCEPT ![i] = r.item]
        /\ last' = Ret("StoreItem.purchase", r.ok, None, i, None, None, 0)
        /\ CommitIf(r.ok /\ ~store_items[i].infinite)
        /\ UNCHANGED << people, ledger, conv_items, rewards >>

\* StoreItem.deactivate
deactivate(i) ==
    /\ StoreExists(i)
    /\ store_items' = [store_items EXCEPT ![i].is_active = FALSE]
    /\ last' = Ret("StoreItem.deactivate", TRUE, None, i, None, None, 0)
    /\ CommitIf(TRUE)
    /\ UNCHANGED << people, ledger, conv_items, rewards >>

\* StoreItem.update_item: setattr for every keyword, no validation.
update_item(i, key, value) ==
    /\ StoreExists(i)
    /\ store_items' = [store_items EXCEPT ![i] =
            IF key = "quantity"
            THEN [@ EXCEPT !.infinite = value.infinite, !.quantity = value.quantity]
            ELSE [@ EXCEPT !.is_active = value]]
    /\ last' = Ret("StoreItem.update_item", TRUE, None, i, None, key, 0)
    /\ CommitIf(TRUE)
    /\ UNCHANGED << people, ledger, conv_items, rewards >>

\* ------------------------------------------- rewards (IndividualReward, FamilyReward)
NextRewardId(table) ==
    IF \A i \in ItemIds : table[i] = NoItem THEN 1
    ELSE 1 + CHOOSE i \in ItemIds : table[i] # NoItem /\ \A j \in ItemIds : table[j] # NoItem => j <= i

\* The parameters of IndividualReward.create_reward, and of FamilyReward.create_reward.
IndividualReward_create_reward_params ==
    {"name", "coin_cost", "family_id", "created_by", "description", "qty", "is_available"}

FamilyReward_create_reward_params ==
    {"name", "point_cost", "family_id", "created_by", "description", "qty", "is_available"}

\* The keyword arguments StoreLogic passes to them.
create_individual_reward_kwargs ==
    {"name", "coin_cost", "family_id", "created_by", "description", "qty", "is_infinite"}

create_family_reward_kwargs ==
    {"name", "point_cost", "family_id", "created_by", "description", "qty", "is_infinite"}

\* A Python call binds only keywords the callee declares; otherwise TypeError.
Binds(kwargs, params) == kwargs \subseteq params

\* str(e) of that TypeError
UnexpectedKeyword(prefix) ==
    prefix \o ": create_reward() got an unexpected keyword argument 'is_infinite'"

\* IndividualReward.create_reward / FamilyReward.create_reward: the row they add.
create_reward(family_id, cost, qty) ==
    [family_id |-> family_id, cost |-> cost, qty |-> qty, is_available |-> TRUE]

\* The early returns of create_individual_reward and create_family_reward.  qty is an
\* int or None: qty.infinite stands for None.
create_reward_error(name, cost, user_id, qty, is_infinite, cost_message) ==
    IF NameTooShort(name) THEN "Reward name must be at least 2 characters long"
    ELSE IF cost < 1 THEN cost_message
    ELSE IF ~is_infinite /\ (qty.infinite \/ qty.quantity < 1)
         THEN "Quantity must be a positive number unless infinite"
    ELSE IF ~UserExists(user_id) THEN "User not found"
    ELSE IF user_family[user_id] = None THEN "You must be part of a family to create rewards"
    ELSE None

\* StoreLogic.create_individual_reward
create_individual_reward(name, coin_cost, user_id, qty, is_infinite) ==
    LET err == create_reward_error(name, coin_cost, user_id, qty, is_infinite,
                                   "Coin cost must be a positive number")
        id == NextRewardId(individual_rewards)
        op == "create_individual_reward"
        bound == Binds(create_individual_reward_kwargs, IndividualReward_create_reward_params)
    IN  /\ (err = None /\ bound) => id \in ItemIds
        /\ IF err # None
           THEN /\ UNCHANGED individual_rewards
                /\ last' = Ret(op, FALSE, err, 0, user_id, None, coin_cost)
           ELSE IF ~bound
           THEN /\ UNCHANGED individual_rewards
                /\ last' = Ret(op, FALSE, UnexpectedKeyword("Failed to create reward"),
                               0, user_id, None, coin_cost)
           ELSE /\ individual_rewards' = [individual_rewards EXCEPT ![id] =
                        create_reward(user_family[user_id], coin_cost,
                                      IF is_infinite THEN 1 ELSE qty.quantity)]
                /\ last' = Ret(op, TRUE, None, id, user_id, None, coin_cost)
        /\ CommitIf(err = None /\ bound)
        /\ UNCHANGED << people, ledger, conv_items, store_items, family_rewards >>

\* StoreLogic.create_family_reward
create_family_reward(name, point_cost, user_id, qty, is_infinite) ==
    LET err == create_reward_error(name, point_cost, user_id, qty, is_infinite,
                                   "Point cost must be a positive number")
        id == NextRewardId(family_rewards)
        op == "create_family_reward"
        bound == Binds(create_family_reward_kwargs, FamilyReward_create_reward_params)
    IN  /\ (err = None /\ bound) => id \in ItemIds
        /\ IF err # None
           THEN /\ UNCHANGED family_rewards
                /\ last' = Ret(op, FALSE, err, 0, user_id, None, point_cost)
           ELSE IF ~bound
           THEN /\ UNCHANGED family_rewards
                /\ last' = Ret(op, FALSE, UnexpectedKeyword("Failed to create reward"),
                               0, user_id, None, point_cost)
           ELSE /\ family_rewards' = [family_rewards EXCEPT ![id] =
                        create_reward(user_family[user_id], point_cost,
                                      IF is_infinite THEN 1 ELSE qty.quantity)]
                /\ last' = Ret(op, TRUE, None, id, user_id, None, point_cost)
        /\ CommitIf(err = None /\ bound)
        /\ UNCHANGED << people, ledger, conv_items, store_items, individual_rewards >>

\* ----------------------------------------------------------------- children
\* Child ids in the order of the primary key.
ChildOrder == << "c1", "c2", "c3", "c4" >>
ChildIds == { ChildOrder[n] : n \in DOMAIN ChildOrder }

\* The position of the next primary key: one more than the largest in use.
NextChildPos ==
    IF DOMAIN child_family = {} THEN 1
    ELSE 1 + CHOOSE n \in DOMAIN ChildOrder :
                /\ ChildOrder[n] \in DOMAIN child_family
                /\ \A m \in DOMAIN ChildOrder : ChildOrder[m] \in DOMAIN child_family => m <= n

\* Child.create_child: the tables with the new row.
Child_create_child(table, child_id, value) ==
    [c \in DOMAIN table \cup {child_id} |-> IF c = child_id THEN value ELSE table[c]]

\* Child.delete: the tables without the row.
Child_delete(table, child_id) == [c \in DOMAIN table \ {child_id} |-> table[c]]

\* ChildLogic.add_child, called with age, birthdate and pin left at None.
add_child_error(name, user_id) ==
    IF NameTooShort(name) THEN "Child name must be at least 2 characters long"
    ELSE IF ~UserExists(user_id) THEN "User not found"
    ELSE IF user_family[user_id] = None THEN "You must be part of a family to add children"
    ELSE None

add_child(name, user_id) ==
    LET err == add_child_error(name, user_id)
        pos == NextChildPos
    IN  /\ err = None => pos \in DOMAIN ChildOrder
        /\ IF err = None
           THEN /\ child_family' = Child_create_child(child_family, ChildOrder[pos], user_family[user_id])
                /\ child_name' = Child_create_child(child_name, ChildOrder[pos], Strip(name))
                /\ last' = Ret("add_child", TRUE, None, 0, user_id, ChildOrder[pos], 0)
           ELSE /\ UNCHANGED << child_family, child_name >>
                /\ last' = Ret("add_child", FALSE, err, 0, user_id, None, 0)
        /\ CommitIf(err = None)
        /\ UNCHANGED << user_family, user_account, membership, ledger, catalog >>

\* ChildLogic.update_child, called with a name and birthdate, pin and age left at None.
update_child_error(child_id, user_id, name) ==
    IF ~ChildExists(child_id) THEN "Child not found"
    ELSE IF ~UserExists(user_id) THEN "User not found"
    ELSE IF user_family[user_id] # child_family[child_id]
         THEN "You can only update children from your own family"
    ELSE IF Len(Strip(name)) < 2 THEN "Child name must be at least 2 characters long"
    ELSE None

update_child(child_id, user_id, name) ==
    LET err == update_child_error(child_id, user_id, name)
    IN  /\ IF err = None
           THEN /\ child_name' = [child_name EXCEPT ![child_id] = Strip(name)]
                /\ last' = Ret("update_child", TRUE, None, 0, user_id, child_id, 0)
           ELSE /\ UNCHANGED child_name
                /\ last' = Ret("update_child", FALSE, err, 0, user_id, child_id, 0)
        /\ CommitIf(err = None)
        /\ UNCHANGED << user_family, user_account, child_family, membership, ledger, catalog >>

\* remove_child without its check of the family.
remove_child_error_NoFamilyCheck(child_id, user_id) ==
    IF ~ChildExists(child_id) THEN "Child not found"
    ELSE IF ~UserExists(user_id) THEN "User not found"
    ELSE None

\* ChildLogic.remove_child
remove_child_error(child_id, user_id) ==
    IF ~ChildExists(child_id) THEN "Child not found"
    ELSE IF ~UserExists(user_id) THEN "User not found"
    ELSE IF user_family[user_id] # child_family[child_id]
         THEN "You can only remove children from your own family"
    ELSE None

remove_child(child_id, user_id) ==
    LET err == remove_child_error(child_id, user_id)
    IN  /\ IF err = None
           THEN /\ child_family' = Child_delete(child_family, child_id)
                /\ child_name' = Child_delete(child_name, child_id)
                /\ last' = Ret("remove_child", TRUE, None, 0, user_id, child_id, 0)
           ELSE /\ UNCHANGED << child_family, child_name >>
                /\ last' = Ret("remove_child", FALSE, err, 0, user_id, child_id, 0)
        /\ CommitIf(err = None)
        /\ UNCHANGED << user_family, user_account, membership, ledger, catalog >>

\* ------------------------------------------------------------- registration
\* User ids in the order of the primary key.
UserOrder == << "u1", "u2", "u3", "u4", "u5", "u6" >>

\* The position of the next primary key: one more than the largest in use.
NextUserPos ==
    1 + CHOOSE n \in DOMAIN UserOrder :
            /\ UserOrder[n] \in DOMAIN user_family
            /\ \A m \in DOMAIN UserOrder : UserOrder[m] \in DOMAIN user_family => m <= n

\* str.lower(), over the letters the inputs are written with.
LowerChar(ch) == IF ch = "A" THEN "a" ELSE IF ch = "B" THEN "b" ELSE ch

Lower(s) == [i \in DOMAIN s |-> LowerChar(s[i])]

Contains(s, ch) == \E i \in DOMAIN s : s[i] = ch

\* email.strip() without the lower().
NormEmail_NoLower(email) == Strip(email)

\* email.strip().lower()
NormEmail(email) == Lower(Strip(email))

\* User.username_exists / User.email_exists: the filter_by(...).first() of the query.
username_exists(username) ==
    \E u \in DOMAIN user_account : user_account[u].username = username

email_exists(email) ==
    \E u \in DOMAIN user_account : user_account[u].email = email

\* AuthLogic.register_user: the early returns.
register_user_error(username, email, password) ==
    IF username = <<>> \/ Len(Strip(username)) < 3
    THEN "Username must be at least 3 characters long"
    ELSE IF email = <<>> \/ ~Contains(email, "@") THEN "Please provide a valid email address"
    ELSE IF password = <<>> \/ Len(password) < 6
         THEN "Password must be at least 6 characters long"
    ELSE IF username_exists(Strip(username)) THEN "Username already exists"
    ELSE IF email_exists(NormEmail(email)) THEN "Email already exists"
    ELSE None

\* User.create_user: the tables with the new row, which has no family.
User_create_user(table, user_id, value) ==
    [u \in DOMAIN table \cup {user_id} |-> IF u = user_id THEN value ELSE table[u]]

register_user(username, email, password) ==
    LET err == register_user_error(username, email, password)
        pos == NextUserPos
    IN  /\ err = None => pos \in DOMAIN UserOrder
        /\ IF err = None
           THEN /\ user_account' = User_create_user(user_account, UserOrder[pos],
                        [username |-> Strip(username), email |-> NormEmail(email)])
                /\ user_family' = User_create_user(user_family, UserOrder[pos], None)
                /\ last' = Ret("register_user", TRUE, None, 0, UserOrder[pos], None, 0)
           ELSE /\ UNCHANGED << user_family, user_account >>
                /\ last' = Ret("register_user", FALSE, err, 0, None, None, 0)
        /\ CommitIf(err = None)
        /\ UNCHANGED << child_family, child_name, membership, ledger, catalog >>

\* ------------------------------------------------------- families and codes
\* range(6) in Family.generate_unique_family_code.
CodeLen == 6

\* string.ascii_uppercase + string.digits
UpperAlnum == { "A", "B", "C", "D", "E", "F", "G", "H", "I", "J", "K", "L", "M",
                "N", "O", "P", "Q", "R", "S", "T", "U", "V", "W", "X", "Y", "Z",
                "0", "1", "2", "3", "4", "5", "6", "7", "8", "9" }

\* The codes the loop is let to draw: one letter and one digit of the alphabet, one
\* character at the odd places and one at the even places, which gives the two codes
\* in use at the start and two more.
Codes == { [i \in 1..CodeLen |-> IF i % 2 = 1 THEN a ELSE b] : a, b \in { "A", "7" } }

\* Family.id values in the order the database hands them out.
FamilyOrder == << "f1", "f2", "f3", "f4" >>

NextFamilyPos ==
    1 + CHOOSE n \in DOMAIN FamilyOrder :
            /\ FamilyOrder[n] \in DOMAIN family_code
            /\ \A m \in DOMAIN FamilyOrder : FamilyOrder[m] \in DOMAIN family_code => m <= n

Idle == [pc |-> "idle", code |-> <<>>, user |-> None, collided |-> FALSE]

\* A query that never finds a row with the code.
code_exists_Never(code) == FALSE

\* cls.query.filter_by(family_code=code).first() is not None
code_exists(code) == \E f \in DOMAIN family_code : family_code[f] = code

\* Family.get_by_code
get_by_code(code) ==
    IF code_exists(code) THEN CHOOSE f \in DOMAIN family_code : family_code[f] = code ELSE None

\* str.upper(), over the letters the inputs are written with.
Upper(s) == [i \in DOMAIN s |-> IF s[i] = "a" THEN "A" ELSE IF s[i] = "b" THEN "B" ELSE s[i]]

\* FamilyLogic.create_family: the early returns.
create_family_error(family_name, creator_id) ==
    IF NameTooShort(family_name) THEN "Family name must be at least 2 characters long"
    ELSE IF ~UserExists(creator_id) THEN "User not found"
    ELSE IF user_family[creator_id] # None THEN "You are already part of a family"
    ELSE None

\* FamilyLogic.create_family up to the call of Family.create_family, which enters the
\* loop of generate_unique_family_code. Requests are served one at a time: no other
\* handler runs until the call has returned.
create_family(family_name, creator_id) ==
    /\ gen.pc = "idle"
    /\ LET err == create_family_error(family_name, creator_id) IN
        IF err # None
        THEN /\ last' = Ret("create_family", FALSE, err, 0, creator_id, None, 0)
             /\ UNCHANGED gen
        ELSE /\ gen' = [pc |-> "draw", code |-> <<>>, user |-> creator_id, collided |-> FALSE]
             /\ last' = Ret("generate_unique_family_code", TRUE, None, 0, creator_id, None, 0)
    /\ UNCHANGED << user_family, user_account, child_family, child_name, family_code,
                    family_creator, join_requests, debits, chores, session, ledger, catalog >>

\* generate_unique_family_code: one pass of the loop draws six characters.
generate_unique_family_code_draw(code) ==
    /\ gen.pc = "draw"
    /\ gen' = [gen EXCEPT !.pc = "check", !.code = code]
    /\ UNCHANGED << user_family, user_account, child_family, child_name, family_code,
                    family_creator, join_requests, debits, chores, session, ledger, catalog, last >>

\* A collision check that takes every code for a used one.
generate_unique_family_code_check_AlwaysUsed ==
    /\ gen.pc = "check"
    /\ gen' = [gen EXCEPT !.pc = "draw", !.collided = TRUE]
    /\ UNCHANGED << user_family, user_account, child_family, child_name, family_code,
                    family_creator, join_requests, debits, chores, session, ledger, catalog,
                    last >>

\* generate_unique_family_code: the collision check. A used code sends the loop round
\* again; an unused one is returned, Family.create_family stores the row and
\* FamilyLogic.create_family puts the creator in the family.
generate_unique_family_code_check ==
    /\ gen.pc = "check"
    /\ IF code_exists(gen.code)
       THEN /\ gen' = [gen EXCEPT !.pc = "draw", !.collided = TRUE]
            /\ UNCHANGED << user_family, family_code, family_creator, family_points,
                            chores, session, last >>
       ELSE LET f == FamilyOrder[NextFamilyPos] IN
            /\ family_code' = (f :> gen.code) @@ family_code
            /\ family_creator' = (f :> gen.user) @@ family_creator
            /\ family_points' = (f :> 0) @@ family_points
            /\ user_family' = [user_family EXCEPT ![gen.user] = f]
            /\ CommitIf(TRUE)
            /\ gen' = [Idle EXCEPT !.collided = gen.collided]
            /\ last' = Ret("create_family", TRUE, None, 0, gen.user, f, 0)
    /\ UNCHANGED << user_account, child_family, child_name, join_requests, debits,
                    total_points, transactions, catalog >>

\* FamilyLogic.join_family: the early returns.
join_family_error(code, user_id) ==
    IF code = <<>> \/ Len(Strip(code)) # 6 THEN "Family code must be 6 characters long"
    ELSE IF ~UserExists(user_id) THEN "User not found"
    ELSE IF user_family[user_id] # None THEN "You are already part of a family"
    ELSE IF get_by_code(Upper(Strip(code))) = None THEN "Invalid family code"
    ELSE None

\* FamilyLogic.join_family
join_family(code, user_id) ==
    /\ gen.pc = "idle"
    /\ LET err == join_family_error(code, user_id)
           done == err = None
           f == get_by_code(Upper(Strip(code))) IN
        /\ IF done
           THEN user_family' = [user_family EXCEPT ![user_id] = f]
           ELSE UNCHANGED user_family
        /\ CommitIf(done)
        /\ last' = Ret("join_family", done, err, 0, user_id, IF done THEN f ELSE None, 0)
    /\ UNCHANGED << user_account, child_family, child_name, membership, ledger, catalog >>

\* ------------------------------------------------------------ join requests
\* User.get_by_username(identifier) or User.get_by_email(identifier.lower())
get_by_identifier(identifier) ==
    IF username_exists(identifier)
    THEN CHOOSE u \in DOMAIN user_account : user_account[u].username = identifier
    ELSE IF email_exists(Lower(identifier))
    THEN CHOOSE u \in DOMAIN user_account : user_account[u].email = Lower(identifier)
    ELSE None

\* JoinRequest.get_pending_for_user_family, as a test.
get_pending_for_user_family(user_id, family_id) ==
    \E r \in DOMAIN join_requests :
        join_requests[r] = [user_id |-> user_id, family_id |-> family_id, status |-> "pending"]

\* JoinRequest.create_request: the table afterwards.
JoinRequest_create_request(user_id, family_id) ==
    IF get_pending_for_user_family(user_id, family_id) THEN join_requests
    ELSE Append(join_requests,
                [user_id |-> user_id, family_id |-> family_id, status |-> "pending"])

\* invite_adult: the early returns.
invite_adult_error(current_user, identifier) ==
    IF user_family[current_user] = None \/ ~FamilyExists(user_family[current_user])
    THEN "Join or create a family first."
    ELSE IF current_user # family_creator[user_family[current_user]]
    THEN "Only the family manager can invite adults."
    ELSE IF Strip(identifier) = <<>> THEN "Please provide a username or email to invite."
    ELSE IF get_by_identifier(Strip(identifier)) = None
    THEN "No user found with that username/email."
    ELSE IF user_family[get_by_identifier(Strip(identifier))] # None
    THEN "That user already belongs to a family."
    ELSE None

\* family_management_controller.invite_adult
invite_adult(current_user, identifier) ==
    /\ gen.pc = "idle"
    /\ LET err == invite_adult_error(current_user, identifier)
           done == err = None
           user == get_by_identifier(Strip(identifier))
           added == done /\ ~get_pending_for_user_family(user, user_family[current_user]) IN
        /\ added => Len(join_requests) < MaxRequests
        /\ IF done
           THEN join_requests' = JoinRequest_create_request(user, user_family[current_user])
           ELSE UNCHANGED join_requests
        /\ CommitIf(added)
        /\ last' = Ret("invite_adult", done, err, 0, current_user,
                       IF done THEN user ELSE None, 0)
    /\ UNCHANGED << user_family, user_account, child_family, child_name, family_code,
                    family_creator, gen, debits, ledger, catalog >>

\* approve / reject of the controller: the checks before the request is asked to decide.
decide_error(req_id, current_user, verb) ==
    IF req_id \notin DOMAIN join_requests THEN "Request not found"
    ELSE IF ~FamilyExists(join_requests[req_id].family_id)
            \/ current_user # family_creator[join_requests[req_id].family_id]
    THEN "Only the family manager can " \o verb \o " requests"
    ELSE None

\* An approve that does not look at the status.
JoinRequest_approve_NoStatusCheck(req_id) == UserExists(join_requests[req_id].user_id)

\* JoinRequest.approve: whether it returns True. Users are never deleted, so the
\* return between the assignment of the status and the commit is not taken.
JoinRequest_approve(req_id) ==
    /\ join_requests[req_id].status = "pending"
    /\ UserExists(join_requests[req_id].user_id)

\* family_management_controller.approve
approve(req_id, current_user) ==
    /\ gen.pc = "idle"
    /\ LET err == decide_error(req_id, current_user, "approve")
           done == err = None /\ JoinRequest_approve(req_id) IN
        /\ IF done
           THEN /\ join_requests' = [join_requests EXCEPT ![req_id].status = "approved"]
                /\ user_family' = [user_family EXCEPT
                        ![join_requests[req_id].user_id] = join_requests[req_id].family_id]
           ELSE UNCHANGED << join_requests, user_family >>
        /\ CommitIf(done)
        /\ last' = Ret("approve", done,
                       IF err # None THEN err
                       ELSE IF done THEN None ELSE "Unable to approve request",
                       req_id, current_user, None, 0)
    /\ UNCHANGED << user_account, child_family, child_name, family_code, family_creator,
                    gen, debits, ledger, catalog >>

\* JoinRequest.reject: whether it returns True.
JoinRequest_reject(req_id) == join_requests[req_id].status = "pending"

\* family_management_controller.reject
reject(req_id, current_user) ==
    /\ gen.pc = "idle"
    /\ LET err == decide_error(req_id, current_user, "reject")
           done == err = None /\ JoinRequest_reject(req_id) IN
        /\ IF done
           THEN join_requests' = [join_requests EXCEPT ![req_id].status = "rejected"]
           ELSE UNCHANGED join_requests
        /\ CommitIf(done)
        /\ last' = Ret("reject", done,
                       IF err # None THEN err
                       ELSE IF done THEN None ELSE "Unable to reject request",
                       req_id, current_user, None, 0)
    /\ UNCHANGED << user_family, user_account, child_family, child_name, family_code,
                    family_creator, gen, debits, ledger, catalog >>

\* ------------------------------------------------- two debits served at once
\* Two requests, each with its own session, no lock and no version column between them.
Requests == { "r1", "r2" }

NoDebit == [pc |-> "idle", family |-> None, points |-> 0, read |-> 0, base |-> 0]

\* Family.get_by_id in a request: its session loads the row and from then on holds
\* the balance it read. base is the balance before the first of the two debits.
subtract_points_read(r, f, points) ==
    /\ debits[r].pc = "idle"
    /\ debits' = [debits EXCEPT ![r] =
            [pc |-> "read", family |-> f, points |-> points, read |-> family_points[f],
             base |-> IF \E q \in Requests : debits[q].family = f
                      THEN debits[CHOOSE q \in Requests : debits[q].family = f].base
                      ELSE family_points[f]]]
    /\ UNCHANGED << user_family, user_account, child_family, child_name, family_code,
                    family_creator, join_requests, gen, chores, session, ledger, catalog, last >>

\* Family.subtract_points in that request: the comparison is made with the balance the
\* session holds, and the commit writes the difference computed from it.
subtract_points_write(r) ==
    /\ debits[r].pc = "read"
    /\ LET d == debits[r]
           res == Family_subtract_points(d.read, d.points) IN
        /\ IF res.ok
           THEN family_points' = [family_points EXCEPT ![d.family] = res.balance]
           ELSE UNCHANGED family_points
        /\ debits' = [debits EXCEPT ![r].pc = "done"]
        /\ last' = Ret("Family.subtract_points", res.ok, None, 0, None, d.family, d.points)
    /\ UNCHANGED << user_family, user_account, child_family, child_name, family_code,
                    family_creator, join_requests, gen, chores, session, total_points,
                    transactions, catalog >>

\* ------------------------------------------------------- chores controller
\* The routes of chores_controller that call ChoreLogic with names it does not have.
\* val is the status of the response: 200 a page, 302 a redirect with a flashed
\* message, 500 an exception nothing caught.

\* new: ChildLogic.get_family_children reads, ChoreLogic.get_family_members does not exist.
new(current_user) ==
    /\ last' = Ret("chores.new", FALSE,
                   "AttributeError: type object 'ChoreLogic' has no attribute 'get_family_members'",
                   0, current_user, None, 500)
    /\ UNCHANGED << people, chores, session, ledger, catalog >>

\* create: ChoreLogic.create_chore is called with assigned_user_id, which it does not declare.
create(name, assigned_child_id, assigned_user_id, current_user) ==
    /\ last' = Ret("chores.create", FALSE,
                   "TypeError: create_chore() got an unexpected keyword argument 'assigned_user_id'",
                   0, current_user, None, 500)
    /\ UNCHANGED << people, chores, session, ledger, catalog >>

\* assign: the two form checks, then a ChoreLogic method that does not exist.
assign(chore_id, child_id, user_id, current_user) ==
    /\ last' =
         IF child_id = None /\ user_id = None
         THEN Ret("chores.assign", FALSE,
                  "Please select a child or family member to assign the chore to",
                  chore_id, current_user, None, 302)
         ELSE IF child_id # None /\ user_id # None
         THEN Ret("chores.assign", FALSE,
                  "Please select either a child OR a family member, not both",
                  chore_id, current_user, None, 302)
         ELSE IF child_id # None
         THEN Ret("chores.assign", FALSE,
                  "AttributeError: type object 'ChoreLogic' has no attribute 'assign_chore_to_child'",
                  chore_id, current_user, None, 500)
         ELSE Ret("chores.assign", FALSE,
                  "AttributeError: type object 'ChoreLogic' has no attribute 'assign_chore_to_user'",
                  chore_id, current_user, None, 500)
    /\ UNCHANGED << people, chores, session, ledger, catalog >>

\* ----------------------------------------------------------- specifications
Init ==
    /\ user_family = [u \in Users |->
            IF u \in {"u1", "u2"} THEN "f1" ELSE IF u = "u3" THEN "f2" ELSE None]
    /\ user_account = [u \in Users |->
            [username |-> << "u", "s", "r", u >>, email |-> << u, "@", "x" >>]]
    /\ child_family = [c \in Children |-> IF c = "c3" THEN "f2" ELSE "f1"]
    /\ child_name = [c \in Children |-> << "K", "i", "d" >>]
    /\ chores = [c \in ChoreIds |-> NoChore]
    /\ session = Clean
    /\ family_points = [f \in Families |-> 0]
    /\ total_points = [f \in {} |-> 0]
    /\ transactions = <<>>
    /\ conv_items = [i \in ItemIds |-> NoItem]
    /\ store_items = [i \in ItemIds |-> NoItem]
    /\ individual_rewards = [i \in ItemIds |-> NoItem]
    /\ family_rewards = [i \in ItemIds |-> NoItem]
    /\ family_code = [f \in Families |-> [i \in 1..CodeLen |-> IF f = "f1" THEN "A" ELSE "7"]]
    /\ family_creator = [f \in Families |-> IF f = "f1" THEN "u1" ELSE "u3"]
    /\ join_requests = <<>>
    /\ gen = Idle
    /\ debits = [r \in Requests |-> NoDebit]
    /\ last = Ret("init", TRUE, None, 0, None, None, 0)

PointInputs == (0 - 1)..MaxPoints
ChildArgs == Children \cup {None}
UserArgs == Users \cup {None}

\* The chore handlers, as one session may call them.
NextChores ==
    \/ \E n \in Names, u \in Users, p \in PointInputs, k \in ChildArgs : create_chore(n, u, p, k)
    \/ \E c \in ChoreIds, u \in Users :
        \/ \E n \in Names : update_chore(c, u, "name", n)
        \/ \E p \in PointInputs : update_chore(c, u, "point_amount", p)
        \/ \E k \in ChildArgs : update_chore(c, u, "assigned_child_id", k)
        \/ \E a \in UserArgs : update_chore(c, u, "assigned_user_id", a)
        \/ \E s \in Statuses : update_chore(c, u, "status", s)
        \/ \E f \in Families : update_chore(c, u, "family_id", f)
    \/ \E c \in ChoreIds, u \in Users : delete_chore(c, u)
    \/ \E c \in ChoreIds, k \in Children, u \in Users : assign_chore(c, k, u)
    \/ \E c \in ChoreIds, u \in Users : complete_chore(c, u)
    \/ \E c \in ChoreIds, u \in Users : approve_chore(c, u)
    \/ \E c \in ChoreIds, k \in Children, u \in Users : submit_chore(c, k, u)
    \/ \E c \in ChoreIds, u \in Users : reject_chore(c, u)
    \/ teardown

SpecChores == Init /\ [][NextChores]_vars

Amounts == (0 - MaxAmount)..MaxAmount
CostInputs == 0..MaxCost
QtyInputs == {Infinite} \cup {Finite(n) : n \in (0 - 1)..MaxQty}
FamilyArgs == Families \cup {None}

\* The settlement handlers of the store: manual adjustment, set, conversion.
NextPoints ==
    \/ \E f \in FamilyArgs, a \in Amounts, u \in Users : adjust_family_points(f, a, u)
    \/ \E f \in FamilyArgs, a \in Amounts, u \in Users : set_family_points(f, a, u)
    \/ \E n \in Names, c \in CostInputs, v \in CostInputs, u \in Users :
            create_conversion_item(n, c, v, u)
    \/ \E i \in ItemIds, u \in Users, c \in CostInputs, v \in CostInputs, b \in BOOLEAN :
            edit_conversion_item(i, u, c, v, b)
    \/ \E i \in ItemIds, u \in Users : purchase_conversion_item(i, u)

SpecPoints == Init /\ [][NextPoints]_vars

\* The two balance stores, their methods called with arbitrary integers.
NextLedger ==
    \/ \E f \in Families, a \in Amounts : add_points(f, a)
    \/ \E f \in Families, a \in Amounts : subtract_points(f, a)
    \/ \E f \in Families, a \in Amounts : set_points(f, a)
    \/ \E f \in FamilyArgs, a \in Amounts, u \in Users : adjust_family_points(f, a, u)
    \/ \E f \in FamilyArgs, a \in Amounts, u \in Users : set_family_points(f, a, u)
    \/ \E f \in Families : get_by_family(f)
    \/ \E f \in Families, a \in Amounts : fp_add_points(f, a)
    \/ \E f \in Families, a \in Amounts : fp_subtract_points(f, a)
    \/ \E f \in Families, a \in Amounts : fp_set_points(f, a)

SpecLedger == Init /\ [][NextLedger]_vars

\* The StoreItem rows and their methods.
NextStore ==
    \/ \E f \in Families, q \in QtyInputs : create_item(f, q)
    \/ \E i \in ItemIds : is_available(i)
    \/ \E i \in ItemIds : purchase(i)
    \/ \E i \in ItemIds : deactivate(i)
    \/ \E i \in ItemIds, q \in QtyInputs : update_item(i, "quantity", q)
    \/ \E i \in ItemIds, b \in BOOLEAN : update_item(i, "is_active", b)

SpecStore == Init /\ [][NextStore]_vars

\* qty of a reward: None, 0 or 1.
RewardQtyInputs == { Infinite, Finite(0), Finite(1) }

\* The create handlers of the chore, store and child logic.
NextCreate ==
    \/ \E n \in Names, u \in Users, p \in PointInputs, k \in ChildArgs : create_chore(n, u, p, k)
    \/ \E n \in Names, c \in CostInputs, u \in Users, q \in RewardQtyInputs, i \in BOOLEAN :
            create_individual_reward(n, c, u, q, i)
    \/ \E n \in Names, c \in CostInputs, u \in Users, q \in RewardQtyInputs, i \in BOOLEAN :
            create_family_reward(n, c, u, q, i)
    \/ \E n \in Names, c \in CostInputs, u \in Users : create_conversion_item(n, c, c, u)
    \/ \E n \in Names, u \in Users : add_child(n, u)

SpecCreate == Init /\ [][NextCreate]_vars

\* The child handlers.
NextChildren ==
    \/ \E n \in Names, u \in Users : add_child(n, u)
    \/ \E k \in ChildIds, u \in Users, n \in Names : update_child(k, u, n)
    \/ \E k \in ChildIds, u \in Users : remove_child(k, u)

SpecChildren == Init /\ [][NextChildren]_vars

Usernames == { << " ", "a", "b" >>, << "b", "o", "b" >>, << "B", "o", "b" >>,
               << "b", "o", "b", " " >>, << "u", "s", "r", "u1" >>, << "c", "a", "t" >> }
Emails == { << "a", "x" >>, << "b", "@", "x" >>, << "B", "@", "x", " " >>, << "u1", "@", "x" >>,
            << "c", "@", "x" >>, << "d", "@", "x" >> }
Passwords == { << "p", "w" >>, << "s", "e", "c", "r", "e", "t" >> }

\* Registration.
NextRegister ==
    \E n \in Usernames, e \in Emails, p \in Passwords : register_user(n, e, p)

SpecRegister == Init /\ [][NextRegister]_vars


\* Family membership: creating and joining families, invitations and their decisions.
NextFamily ==
    \/ \E n \in Names, u \in Users : create_family(n, u)
    \/ \E code \in Codes : generate_unique_family_code_draw(code)
    \/ generate_unique_family_code_check
    \/ \E code \in { << "A", "7" >>, << " ", "a", "a", "a", "a", "a", "a" >>,
                     << "b", "b", "b", "b", "b", "b" >> }
                        \cup { family_code[f] : f \in DOMAIN family_code }, u \in Users :
            join_family(code, u)
    \/ \E u \in Users, i \in { << " " >>, << "u", "s", "r", "u4" >>, << "u4", "@", "x" >>,
                                << "u", "s", "r", "u2" >>, << "n", "o" >> } :
            invite_adult(u, i)
    \/ \E r \in 1..(MaxRequests + 1), u \in Users : approve(r, u)
    \/ \E r \in 1..(MaxRequests + 1), u \in Users : reject(r, u)

SpecFamily == Init /\ [][NextFamily]_vars

\* The same with the scheduling of the loop: the interpreter goes on to the check after
\* a draw, and secrets.choice, drawing again and again, does not avoid the unused codes
\* for ever.
SpecFamilyFair ==
    /\ SpecFamily
    /\ WF_vars(generate_unique_family_code_check)
    /\ SF_vars(\E code \in Codes : ~code_exists(code) /\ generate_unique_family_code_draw(code))

\* Credits while no debit is under way, then two debits whose steps interleave.
NextDebit ==
    \/ \E f \in Families, a \in 1..MaxAmount :
            (\A r \in Requests : debits[r].pc = "idle") /\ add_points(f, a)
    \/ \E r \in Requests, f \in Families, a \in 0..MaxAmount : subtract_points_read(r, f, a)
    \/ \E r \in Requests : subtract_points_write(r)

SpecDebit == Init /\ [][NextDebit]_vars

\* The chore operations, and the chore routes whose calls ChoreLogic cannot take.
NextRequests ==
    \/ NextChores
    \/ \E u \in Users : new(u)
    \/ \E n \in Names, k \in {None, "c1"}, a \in {None, "u2"}, u \in Users :
            create(n, k, a, u)
    \/ \E c \in ChoreIds, k \in {None, "c1"}, a \in {None, "u2"}, u \in Users :
            assign(c, k, a, u)

SpecRequests == Init /\ [][NextRequests]_vars

\* Chores, balances and conversion items together, for users of both families.
NextIsolation ==
    \/ \E u \in Users, k \in ChildArgs : create_chore(<< "D", "i", "s", "h" >>, u, 1, k)
    \/ \E c \in ChoreIds, u \in Users :
        \/ \E k \in ChildArgs : update_chore(c, u, "assigned_child_id", k)
        \/ \E f \in Families : update_chore(c, u, "family_id", f)
        \/ delete_chore(c, u)
        \/ complete_chore(c, u)
        \/ approve_chore(c, u)
        \/ reject_chore(c, u)
        \/ \E k \in Children : assign_chore(c, k, u)
    \/ \E f \in Families, a \in {0 - 1, 1}, u \in Users : adjust_family_points(f, a, u)
    \/ \E f \in Families, u \in Users : set_family_points(f, MaxAmount, u)
    \/ \E u \in Users : create_conversion_item(<< "D", "i", "s", "h" >>, 1, 1, u)
    \/ \E i \in ItemIds, u \in Users : purchase_conversion_item(i, u)

SpecIsolation == Init /\ [][NextIsolation]_vars

\* ------------------------------------------------------------------- claims
Completes == {"complete_chore", "approve_chore"}

\* C1: for every family, the amounts of its PointsTransaction rows add up to its
\* balance, after any sequence of settlement operations.
C1_Reconciliation ==
    \A f \in Families : SumAmounts(transactions, f) = family_points[f]

\* C2: no balance, neither Family.family_points nor FamilyPoints.total_points, is ever
\* below 0, whatever integers credit, debit, set and adjustment are called with.
C2_NoNegativeBalance ==
    \A f \in Families :
        /\ family_points[f] >= 0
        /\ HasRow(f) => total_points[f] >= 0

\* C3: complete_chore or approve_chore on a chore that is already completed returns
\* failure and changes neither the chore, nor any balance, nor the transactions.
C3_ChoreIdempotence ==
    [][\A c \in ChoreIds :
        (/\ ChoreExists(c)
         /\ chores[c].status = "completed"
         /\ last'.op \in Completes
         /\ last'.id = c)
        => /\ ~last'.ok
           /\ chores' = chores
           /\ session' = session
           /\ ledger' = ledger]_vars

C3_Witness ==
    /\ last.op \in Completes
    /\ ~last.ok
    /\ last.err \in {"Chore is already completed", "Chore is not awaiting approval"}
    /\ ChoreExists(last.id)
    /\ chores[last.id].status = "completed"

\* C4: a successful completion (complete_chore or approve_chore) of a chore with
\* point amount p > 0 adds exactly p to the balance of the chore's family and appends
\* one 'chore_completion' transaction of amount p that refers to the chore.
C4_CompletionSettlement ==
    [][\A c \in ChoreIds :
        (/\ last'.op \in Completes
         /\ last'.ok
         /\ last'.id = c
         /\ chores[c].point_amount > 0)
        => LET f == chores[c].family_id
               p == chores[c].point_amount
           IN  /\ family_points'[f] = family_points[f] + p
               /\ transactions' = Append(transactions,
                    [family_id |-> f, amount |-> p, transaction_type |-> "chore_completion",
                     reference_id |-> c])]_vars

\* C6: a purchase never takes a finite quantity below 0, a successful purchase takes
\* exactly one unit, and at quantity 0 the item is unavailable and a purchase fails
\* and leaves the quantity as it is.
C6_QuantityFloor ==
    [][\A i \in ItemIds :
        (/\ StoreExists(i)
         /\ ~store_items[i].infinite
         /\ last'.op = "StoreItem.purchase"
         /\ last'.id = i)
        => LET q == store_items[i].quantity
           IN  /\ q >= 0 => store_items'[i].quantity >= 0
               /\ last'.ok => store_items'[i].quantity = q - 1
               /\ q = 0 => /\ ~StoreItem_is_available(store_items[i])
                           /\ ~last'.ok
                           /\ store_items'[i].quantity = q]_vars

\* The last unit has just been sold.
C6_Witness ==
    /\ last.op = "StoreItem.purchase"
    /\ last.ok
    /\ ~store_items[last.id].infinite
    /\ store_items[last.id].quantity = 0

C8_TerminalStates ==
    [][\A c \in ChoreIds :
        (/\ ChoreExists(c)
         /\ chores[c].status \in {"completed", "archived"}
         /\ last'.op # "delete_chore")
        => /\ chores'[c] # NoChore
           /\ chores'[c].status = chores[c].status]_vars

HasAssignee(chore) == chore.assigned_child_id # None \/ chore.assigned_user_id # None

\* C9 as stated: complete_chore on a chore that has an assignee succeeds only for the
\* assignee, and a failed attempt leaves the chore as it is.
C9_AssigneeOnly ==
    [][\A c \in ChoreIds :
        (/\ ChoreExists(c)
         /\ HasAssignee(chores[c])
         /\ last'.op = "complete_chore"
         /\ last'.id = c)
        => /\ last'.ok => last'.user \in {chores[c].assigned_child_id, chores[c].assigned_user_id}
           /\ ~last'.ok => chores' = chores]_vars

\* C9 as amended: neither complete_chore nor approve_chore reads the assignee.
\* complete_chore succeeds exactly when the completer's family is the chore's family
\* and the chore is not completed yet, approve_chore exactly when the families agree
\* and the chore is pending or submitted; a success leaves the chore completed and a
\* failed attempt leaves the chore and the session as they are.
C9_FamilyRule ==
    [][\A c \in ChoreIds, u \in Users :
        (/\ ChoreExists(c)
         /\ last'.op \in Completes
         /\ last'.id = c
         /\ last'.user = u)
        => /\ last'.ok <=> (/\ user_family[u] = chores[c].family_id
                            /\ IF last'.op = "complete_chore"
                               THEN StatusOf(c) # "completed"
                               ELSE StatusOf(c) \in {"submitted", "pending"})
           /\ last'.ok => chores'[c].status = "completed"
           /\ ~last'.ok => chores' = chores /\ session' = session]_vars

\* A chore assigned to one adult has been completed by another user.
C9_Witness ==
    /\ last.op = "complete_chore"
    /\ last.ok
    /\ chores[last.id].assigned_user_id \notin {None, last.user}

\* C10: submit_chore by a child and a parent of the chore's family makes a pending
\* chore assigned to that child 'submitted' and succeeds; for a chore not assigned to
\* the child it fails and leaves the status as it is.
C10_Submission ==
    [][\A c \in ChoreIds, k \in Children, u \in Users :
        (/\ ChoreExists(c)
         /\ user_family[u] = chores[c].family_id
         /\ child_family[k] = chores[c].family_id
         /\ last'.op = "submit_chore"
         /\ last'.id = c
         /\ last'.arg = k
         /\ last'.user = u)
        => IF chores[c].assigned_child_id = k
           THEN StatusOf(c) = "pending" => last'.ok /\ chores'[c].status = "submitted"
           ELSE ~last'.ok /\ chores' = chores /\ session' = session]_vars

\* C11: reject_chore by a user of the chore's family on a submitted chore succeeds and
\* makes the chore pending; on a chore in any other status it fails and leaves the
\* status as it is.
C11_Rejection ==
    [][\A c \in ChoreIds, u \in Users :
        (/\ ChoreExists(c)
         /\ user_family[u] = chores[c].family_id
         /\ session = Clean
         /\ last'.op = "reject_chore"
         /\ last'.id = c
         /\ last'.user = u)
        => IF chores[c].status = "submitted"
           THEN last'.ok /\ chores'[c].status = "pending"
           ELSE ~last'.ok /\ chores' = chores /\ session' = session]_vars

\* C12: delete_chore on a completed chore fails and the chore row remains.
C12_NoDeleteCompleted ==
    [][\A c \in ChoreIds :
        (/\ ChoreExists(c)
         /\ chores[c].status = "completed"
         /\ session = Clean
         /\ last'.op = "delete_chore"
         /\ last'.id = c)
        => ~last'.ok /\ chores' = chores]_vars

\* C13: a credit (add_points) or a debit (subtract_points) with an amount <= 0, on
\* either balance store, fails and leaves the balance as it is; a debit with a negative
\* amount never raises the balance.
C13_InvalidAmount ==
    [][\A f \in Families :
        /\ (last'.op = "Family.add_points" /\ last'.arg = f /\ last'.val <= 0)
                => family_points' = family_points
        /\ (last'.op = "Family.subtract_points" /\ last'.arg = f /\ last'.val <= 0)
                => ~last'.ok /\ family_points' = family_points
        /\ (last'.op = "FamilyPoints.add_points" /\ last'.arg = f)
                => total_points'[f] >= total_points[f]
        /\ (last'.op = "FamilyPoints.subtract_points" /\ last'.arg = f /\ last'.val <= 0)
                => ~last'.ok /\ total_points' = total_points]_vars

\* C14: setting a balance to an amount < 0 fails and leaves the balance as it is;
\* setting it to an amount >= 0 overwrites the balance with that amount, and the value
\* reported back is the new balance.
C14_LedgerSet ==
    [][\A f \in Families :
        /\ (last'.op = "Family.set_points" /\ last'.arg = f)
                => family_points'[f] = IF last'.val < 0 THEN family_points[f] ELSE last'.val
        /\ (last'.op = "set_family_points" /\ last'.arg = f)
                => IF last'.ok
                   THEN last'.val >= 0 /\ family_points'[f] = last'.val
                   ELSE family_points' = family_points
        /\ (last'.op = "FamilyPoints.set_points" /\ last'.arg = f)
                => /\ last'.val = total_points'[f]
                   /\ last'.val < 0 => total_points' = total_points]_vars

\* C15: FamilyPoints.get_by_family(f) returns the row of f as it is when there is one
\* and otherwise creates it with total 0; it touches no other row, and however often
\* it is called f has one row and a non-zero total is never reset.
C15_GetOrCreate ==
    [][\A f \in Families :
        (last'.op = "FamilyPoints.get_by_family" /\ last'.arg = f)
        => /\ DOMAIN total_points' = DOMAIN total_points \cup {f}
           /\ \A g \in DOMAIN total_points : total_points'[g] = total_points[g]
           /\ ~HasRow(f) => total_points'[f] = 0
           /\ last'.val = total_points'[f]]_vars

\* get_by_family has returned a row whose total is not 0.
C15_Witness ==
    /\ last.op = "FamilyPoints.get_by_family"
    /\ HasRow(last.arg)
    /\ total_points[last.arg] # 0
    /\ last.val = total_points[last.arg]

\* C16: a successful adjust_family_points that moves the balance of a family from b to
\* b + a reports b + a and appends one 'manual_adjustment' transaction of signed amount
\* a; a failed one changes nothing, and a negative a with |a| > b fails.
C16_ManualAdjustment ==
    [][\A f \in Families :
        (last'.op = "adjust_family_points" /\ last'.arg = f)
        => IF last'.ok
           THEN /\ last'.val = family_points'[f]
                /\ family_points'[f] # family_points[f] =>
                        transactions' = Append(transactions,
                            [family_id |-> f, amount |-> family_points'[f] - family_points[f],
                             transaction_type |-> "manual_adjustment", reference_id |-> None])
           ELSE /\ family_points' = family_points
                /\ transactions' = transactions]_vars

\* What the claim C17 requires of a reward's name, cost and quantity.
ValidReward(name, cost, qty, is_infinite) ==
    /\ ~NameTooShort(name)
    /\ cost >= 1
    /\ is_infinite \/ (~qty.infinite /\ qty.quantity >= 1)

\* C17: for a user in a family, creating an individual or a family reward returns the
\* created item when the name has 2 characters or more, the cost is >= 1 and the
\* quantity is >= 1 or the item infinite; otherwise it fails and creates nothing.
C17_CatalogCreate ==
    [][\A n \in Names, c \in CostInputs, u \in Users, q \in RewardQtyInputs, i \in BOOLEAN :
        /\ (user_family[u] # None /\ create_individual_reward(n, c, u, q, i))
                => IF ValidReward(n, c, q, i)
                   THEN last'.ok /\ individual_rewards'[last'.id] # NoItem
                   ELSE ~last'.ok /\ individual_rewards' = individual_rewards
        /\ (user_family[u] # None /\ create_family_reward(n, c, u, q, i))
                => IF ValidReward(n, c, q, i)
                   THEN last'.ok /\ family_rewards'[last'.id] # NoItem
                   ELSE ~last'.ok /\ family_rewards' = family_rewards]_vars

Creates == {"create_chore", "create_individual_reward", "create_family_reward",
            "create_conversion_item", "add_child"}

\* C18: a create operation (chore, reward, conversion item, child) by a user who has no
\* family fails and adds no record.
C18_NoFamilyNoCreate ==
    [][(last'.op \in Creates /\ user_family[last'.user] = None)
        => /\ ~last'.ok
           /\ chores' = chores
           /\ conv_items' = conv_items
           /\ rewards' = rewards
           /\ child_family' = child_family]_vars

\* A user without a family has been refused a chore with a valid name.
C18_Witness ==
    /\ last.op = "create_chore"
    /\ ~last.ok
    /\ user_family[last.user] = None
    /\ last.err = "You must be part of a family to create chores"

\* C19: a child that add_child creates gets the family of the adding user; update_child
\* and remove_child succeed only for a user of the child's family, and for any other
\* user they fail and leave every child as it is.
C19_ChildScoping ==
    [][/\ (last'.op = "add_child" /\ last'.ok)
            => /\ last'.arg \notin DOMAIN child_family
               /\ child_family'[last'.arg] = user_family[last'.user]
               /\ \A k \in DOMAIN child_family : child_family'[k] = child_family[k]
       /\ (last'.op \in {"update_child", "remove_child"} /\ last'.arg \in DOMAIN child_family)
            => IF user_family[last'.user] = child_family[last'.arg]
               THEN \A k \in DOMAIN child_family \ {last'.arg} :
                        /\ k \in DOMAIN child_family'
                        /\ child_family'[k] = child_family[k]
                        /\ child_name'[k] = child_name[k]
               ELSE /\ ~last'.ok
                    /\ child_family' = child_family
                    /\ child_name' = child_name]_vars

\* A user of another family has been refused the removal of a child.
C19_Witness ==
    /\ last.op = "remove_child"
    /\ ~last.ok
    /\ last.arg \in DOMAIN child_family
    /\ user_family[last.user] \notin {None, child_family[last.arg]}

\* C20: after any sequence of register_user calls no two users have the same username,
\* and no two have the same email once both are trimmed and lower-cased.
C20_AccountUniqueness ==
    \A u, v \in DOMAIN user_account :
        u # v => /\ user_account[u].username # user_account[v].username
                 /\ Lower(Strip(user_account[u].email)) # Lower(Strip(user_account[v].email))

\* A registration with the email of a user registered before it has been refused.
C20_Witness ==
    /\ last.op = "register_user"
    /\ ~last.ok
    /\ last.err = "Email already exists"
    /\ "u5" \in DOMAIN user_account
    /\ user_account["u5"].email = << "b", "@", "x" >>

\* C21: after any sequence of family creations every family has a code of six
\* characters, each an uppercase letter or a digit, and no two families have the
\* same code.
C21_JoinCodeUniqueness ==
    /\ \A f \in DOMAIN family_code :
            /\ Len(family_code[f]) = 6
            /\ \A i \in 1..6 : family_code[f][i] \in UpperAlnum
    /\ \A f, g \in DOMAIN family_code : f # g => family_code[f] # family_code[g]

\* A family was created after the loop had drawn a code already in use.
C21_Witness ==
    /\ last.op = "create_family" /\ last.ok
    /\ gen.collided
    /\ "f3" \in DOMAIN family_code

\* C22: when two debits of the same family balance interleave at their read, compare
\* and write steps, the balance they leave is the one that one of the two serial
\* orders leaves, and it is not negative.
C22_SerialDebits ==
    \A f \in Families :
        (\A r \in Requests : debits[r].pc = "done" /\ debits[r].family = f) =>
            /\ family_points[f] >= 0
            /\ \E r, q \in Requests :
                    /\ r # q
                    /\ family_points[f] =
                         Family_subtract_points(
                            Family_subtract_points(debits[r].base, debits[r].points).balance,
                            debits[q].points).balance

\* C23: every request ends in a success or in a failure that carries a message; the
\* new-chore form, chore create and chore assign never end in an exception that
\* nothing caught.
C23_FailuresAreValues ==
    last.op \in {"chores.new", "chores.create", "chores.assign"} => last.val # 500

\* C24: once a user's family_id is set to a family, no create_family, join_family,
\* invite_adult, approve or reject changes it to a different family.
C24_MembershipStable ==
    [][\A u \in DOMAIN user_family :
            user_family[u] # None => user_family'[u] = user_family[u]]_vars

\* C25: when submit_chore or reject_chore returns failure, the status of the chore that
\* a later read or commit of the same session sees is the status before the call.
C25_FailedTransitionUntouched ==
    [][\A c \in ChoreIds :
        (/\ ChoreExists(c)
         /\ last'.op \in {"submit_chore", "reject_chore"}
         /\ last'.id = c
         /\ ~last'.ok)
        => StatusOf(c)' = StatusOf(c)]_vars

\* C26: an operation on points, conversion items or chores invoked by a user of one
\* family changes neither the balance, nor the chores, nor the catalog items of another
\* family, and it fails when its target belongs to another family. The chores of a
\* family are the rows that carry its family_id, before or after the call. The session
\* of the request holds no writes but those of the user's own family.
C26_CrossFamilyIsolation ==
    [][(/\ last'.op \in {"adjust_family_points", "set_family_points",
                        "purchase_conversion_item", "create_chore", "update_chore",
                        "delete_chore", "assign_chore", "complete_chore", "approve_chore",
                        "reject_chore"}
        /\ \A c \in ChoreIds :
                session[c] # None => chores[c].family_id = user_family[last'.user])
        => LET A == user_family[last'.user] IN
           /\ \A B \in Families \ {A} :
                /\ family_points'[B] = family_points[B]
                /\ HasRow(B) => B \in DOMAIN total_points' /\ total_points'[B] = total_points[B]
           /\ \A c \in ChoreIds :
                /\ (ChoreExists(c) /\ chores[c].family_id # A)
                        => chores'[c] = chores[c] /\ session'[c] = session[c]
                /\ (chores'[c] # NoChore /\ chores'[c].family_id # A)
                        => chores'[c] = chores[c]
           /\ \A i \in ItemIds :
                /\ (ConvExists(i) /\ conv_items[i].family_id # A) => conv_items'[i] = conv_items[i]
                /\ store_items'[i] = store_items[i]
                /\ rewards' = rewards
           /\ (last'.op \in {"adjust_family_points", "set_family_points"} /\ last'.arg # A)
                => ~last'.ok
           /\ (/\ last'.op \in {"update_chore", "delete_chore", "assign_chore",
                                 "complete_chore", "approve_chore", "reject_chore"}
               /\ ChoreExists(last'.id)
               /\ chores[last'.id].family_id # A) => ~last'.ok
           /\ (/\ last'.op = "purchase_conversion_item"
               /\ ConvExists(last'.id)
               /\ conv_items[last'.id].family_id # A) => ~last'.ok]_vars

\* C27: a JoinRequest starts pending; approve and reject succeed only on a pending
\* request; on a request that is approved or rejected every later approve or reject
\* returns False and changes neither the status of a request nor the family of a user.
C27_DecisionsFinal ==
    [][/\ \A r \in DOMAIN join_requests' \ DOMAIN join_requests :
            join_requests'[r].status = "pending"
       /\ \A r \in DOMAIN join_requests :
            /\ r \in DOMAIN join_requests'
            /\ join_requests'[r].status # join_requests[r].status
                    => join_requests[r].status = "pending"
            /\ (last'.op \in {"approve", "reject"} /\ last'.id = r)
                    => /\ last'.ok => join_requests[r].status = "pending"
                       /\ join_requests[r].status # "pending"
                            => /\ ~last'.ok
                               /\ join_requests' = join_requests
                               /\ user_family' = user_family]_vars

\* The manager has been refused the approval of a request that was rejected before.
C27_Witness ==
    /\ last.op = "approve"
    /\ ~last.ok
    /\ last.err = "Unable to approve request"
    /\ join_requests[last.id].status = "rejected"

\* C28: after any sequence of chore create, update and assign operations, every chore
\* whose assigned child exists has that child's family as its own family.
C28_AssignmentInFamily ==
    \A c \in ChoreIds :
        (/\ ChoreExists(c)
         /\ chores[c].assigned_child_id # None
         /\ ChildExists(chores[c].assigned_child_id))
        => child_family[chores[c].assigned_child_id] = chores[c].family_id

\* C29: for every family that has a FamilyPoints row, the balance on the Family record
\* and the total of the row are equal after any sequence of credit, debit, set and
\* adjustment operations.
C29_SingleBalance ==
    \A f \in Families : HasRow(f) => total_points[f] = family_points[f]

\* C30: under fair random choice generate_unique_family_code, once called while some
\* code of the code space is unused, eventually returns, and the code it returns is one
\* that no family had.
C30_GenerationTerminates ==
    (gen.pc # "idle" /\ \E code \in Codes : ~code_exists(code))
        ~> (/\ gen.pc = "idle"
            /\ last.op = "create_family" /\ last.ok
            /\ \A f \in DOMAIN family_code \ {last.arg} :
                    family_code[f] # family_code[last.arg])

\* The loop has returned a code that is neither of the two in use at the start, after
\* a pass that drew a code in use.
C30_Witness ==
    /\ gen.pc = "idle" /\ gen.collided
    /\ last.op = "create_family" /\ last.ok
    /\ \A f \in Families : family_code[f] # family_code[last.arg]

====
